---- MODULE Spec2Model ----
(***************************************************************************)
(* Inventory state-transition and combo-availability engine of dsx-erp     *)
(* (backend/app/api/api_v1/endpoints/{purchase_orders,inventory,           *)
(* combo_products}.py).  Every endpoint is one atomic action: it runs      *)
(* against a session copy of the database and the copy replaces the        *)
(* database only when the handler reached db.commit().                     *)
(***************************************************************************)
EXTENDS Integers, Sequences, FiniteSets, TLC

(* ---------- bounds of the model ---------- *)
\* purchase orders created in the stock flow and in the single-order life cycle
MaxOrders == 1
\* purchase orders the table holds: created where orders share a stock record
MaxPairOrders == 2
\* largest quantity of one purchase order line
MaxQty == 2
\* rows the inventory transaction log may hold before mutating calls stop
MaxInvTx == 6
\* rows the combo transaction log may hold before mutating calls stop
MaxComboTx == 2
\* largest stock level drawn for the availability calculation
MaxStock == 4
\* requests each of the two concurrent clients sends
MaxRequests == 2

(* ---------- catalogue ---------- *)
Warehouses == {"W1", "W2"}
\* A, B: sale_type "商品" (product); P: sale_type "包材" (packaging)
Products == {"A", "B", "P"}
ComboIds == {"C"}
\* "none" stands for a NULL column / an unset request field
None == "none"

PENDING == "pending"
PARTIAL == "partial"
COMPLETED == "completed"
CANCELLED == "cancelled"
OrderStatus == {PENDING, PARTIAL, COMPLETED, CANCELLED}

InvFields == {"in_transit", "semi_finished", "finished", "shipped"}

\* a (product, warehouse) pair without a row in inventory_records
NoInventoryRecord ==
  [exists |-> FALSE, in_transit |-> 0, semi_finished |-> 0, finished |-> 0, shipped |-> 0]
\* a (combo, warehouse) pair without a row in combo_inventory_records
NoComboInventoryRecord == [exists |-> FALSE, finished |-> 0, shipped |-> 0]
\* an order id without a row in purchase_orders
NoPurchaseOrder ==
  [exists |-> FALSE, warehouse_id |-> None, status |-> None, total_amount |-> 0, items |-> <<>>]

(* ---------- helpers ---------- *)
Max(a, b) == IF a >= b THEN a ELSE b
Min(a, b) == IF a <= b THEN a ELSE b

\* Python's floor division a // b for b > 0
FloorDiv(a, b) == a \div b

RECURSIVE SumSeq(_, _)
SumSeq(s, i) == IF i > Len(s) THEN 0 ELSE s[i] + SumSeq(s, i + 1)

VARIABLES
  inv,            \* inventory_records: [Products \X Warehouses -> row]
  comboInv,       \* combo_inventory_records: [ComboIds \X Warehouses -> row]
  orders,         \* purchase_orders with their purchase_order_items
  invTx,          \* inventory_transactions, in insertion order
  comboTx,        \* combo_inventory_transactions, in insertion order
  idSeq,          \* primary-key sequences of purchase_orders / purchase_order_items
  products,       \* products with their packaging configuration
  combos,         \* combo_products with their bill of materials
  call,           \* the last request and its response
  sessions,       \* the open session of each client whose request is in flight
  inventory_records \* inventory_records as a list of rows, where requests interleave

vars == <<inv, comboInv, orders, invTx, comboTx, idSeq, products, combos, call,
          sessions, inventory_records>>
catalogue == <<products, combos>>
\* what only the interleaved requests use
concurrent == <<sessions, inventory_records>>

\* the committed database, as the next request's session first reads it; transfers
\* is the list of ledger transfers the session has performed (empty at its start)
Database ==
  [inv |-> inv, comboInv |-> comboInv, orders |-> orders, invTx |-> invTx,
   comboTx |-> comboTx, transfers |-> <<>>]

(* ---------- responses ---------- *)
\* the handler returned after db.commit()
Committed(S, body) == [code |-> 200, committed |-> TRUE, session |-> S, body |-> body]
\* the handler raised before db.commit(); S is the session at the raise
Raised(code, S) ==
  [code |-> code, committed |-> FALSE, session |-> S, body |-> [detail |-> None]]

\* get_db closes the session when the request ends: only what the handler
\* committed stays in the database, everything else of the session is dropped
get_db_keeps_session(db, r) == r.session
get_db(db, r) == IF r.committed THEN r.session ELSE db

(* ---------- inventory ledger (purchase_orders.py) ---------- *)
_create_inventory_transaction(S, product_id, warehouse_id, transaction_type, quantity, reference_id, from_status, to_status) ==
  [S EXCEPT !.invTx = Append(@,
     [product_id |-> product_id, warehouse_id |-> warehouse_id,
      transaction_type |-> transaction_type, from_status |-> from_status,
      to_status |-> to_status, quantity |-> quantity, reference_id |-> reference_id])]

_update_inventory_in_transit(S, product_id, warehouse_id, quantity) ==
  LET inventory == S.inv[product_id, warehouse_id] IN
  IF ~inventory.exists
    THEN [S EXCEPT !.inv[product_id, warehouse_id] =
            [exists |-> TRUE, in_transit |-> Max(0, quantity),
             semi_finished |-> 0, finished |-> 0, shipped |-> 0]]
    ELSE [S EXCEPT !.inv[product_id, warehouse_id].in_transit =
            Max(0, inventory.in_transit + quantity)]

\* the row after the move; the source check is made by the caller below
transfer_row_no_increment(inventory, from_status, to_status, quantity) ==
  [inventory EXCEPT ![from_status] = @ - quantity]
transfer_row(inventory, from_status, to_status, quantity) ==
  [[inventory EXCEPT ![from_status] = @ - quantity] EXCEPT ![to_status] = @ + quantity]

_transfer_inventory_unchecked(S, product_id, warehouse_id, from_status, to_status, quantity) ==
  LET inventory == S.inv[product_id, warehouse_id] IN
  IF ~inventory.exists THEN [ok |-> FALSE, S |-> S]
  ELSE [ok |-> TRUE,
        S |-> [S EXCEPT !.inv[product_id, warehouse_id] =
                 transfer_row(inventory, from_status, to_status, quantity),
               !.transfers = Append(@,
                 [product_id |-> product_id, warehouse_id |-> warehouse_id,
                  from_status |-> from_status, to_status |-> to_status,
                  quantity |-> quantity, before |-> inventory,
                  after |-> transfer_row(inventory, from_status, to_status, quantity)])]]
_transfer_inventory(S, product_id, warehouse_id, from_status, to_status, quantity) ==
  LET inventory == S.inv[product_id, warehouse_id] IN
  IF ~inventory.exists THEN [ok |-> FALSE, S |-> S]
  ELSE IF inventory[from_status] < quantity THEN [ok |-> FALSE, S |-> S]
  ELSE [ok |-> TRUE,
        S |-> [S EXCEPT !.inv[product_id, warehouse_id] =
                 transfer_row(inventory, from_status, to_status, quantity),
               !.transfers = Append(@,
                 [product_id |-> product_id, warehouse_id |-> warehouse_id,
                  from_status |-> from_status, to_status |-> to_status,
                  quantity |-> quantity, before |-> inventory,
                  after |-> transfer_row(inventory, from_status, to_status, quantity)])]]

(* ---------- purchase orders (purchase_orders.py) ---------- *)
\* Amounts of money are counted in thousandths of the currency unit. unit_price is a
\* Decimal of any scale (ge=0), while total_amount, unit_price and subtotal are
\* Numeric(10, 2) columns: PostgreSQL rounds the value it is given to the nearest
\* hundredth, halves away from zero. Amounts stay far below the ten digits.
numeric_10_2(x) == ((x + 5) \div 10) * 10

\* total_amount = sum(item.subtotal for item in order_data.items)
total_amount(items) ==
  SumSeq([i \in 1..Len(items) |-> items[i].quantity * items[i].unit_price], 1)

\* the loop over order_data.items of create_purchase_order, from line i on
RECURSIVE create_order_items(_, _, _, _, _, _)
create_order_items(S, order_id, warehouse_id, items, first_item_id, i) ==
  IF i > Len(items) THEN S
  ELSE
    LET item_data == items[i]
        db_item == [id |-> first_item_id + i - 1, product_id |-> item_data.product_id,
                    quantity |-> item_data.quantity,
                    unit_price |-> numeric_10_2(item_data.unit_price),
                    subtotal |-> numeric_10_2(item_data.quantity * item_data.unit_price),
                    received_quantity |-> 0]
        S1 == [S EXCEPT !.orders[order_id].items = Append(@, db_item)]
        S2 == _update_inventory_in_transit(S1, item_data.product_id, warehouse_id,
                                           item_data.quantity)
        S3 == _create_inventory_transaction(S2, item_data.product_id, warehouse_id,
                                            "purchase", item_data.quantity, order_id,
                                            None, "in_transit")
    IN create_order_items(S3, order_id, warehouse_id, items, first_item_id, i + 1)

create_purchase_order(S, ids, order_data) ==
  LET order_id == ids.order
      db_order == [exists |-> TRUE, warehouse_id |-> order_data.warehouse_id,
                   status |-> PENDING, total_amount |-> numeric_10_2(total_amount(order_data.items)),
                   items |-> <<>>]
      S1 == [S EXCEPT !.orders[order_id] = db_order]
  IN Committed(create_order_items(S1, order_id, order_data.warehouse_id,
                                  order_data.items, ids.item, 1),
               [id |-> order_id])

\* if db_order.status != OrderStatus.PENDING: raise (update and delete)
not_pending_ignored(db_order) == FALSE
not_pending(db_order) == db_order.status # PENDING

\* setattr(db_order, field, value) for every field the request sets
update_purchase_order(S, order_id, order_data) ==
  LET db_order == S.orders[order_id] IN
  IF ~db_order.exists THEN Raised(404, S)
  ELSE IF not_pending(db_order) THEN Raised(400, S)
  ELSE Committed(
         [S EXCEPT !.orders[order_id] =
            [db_order EXCEPT
               !.warehouse_id = IF order_data.warehouse_id = None THEN @
                                ELSE order_data.warehouse_id,
               !.status = IF order_data.status = None THEN @ ELSE order_data.status]],
         [id |-> order_id])

\* next((item for item in db_order.items if item.id == item_id), None):
\* the position of the first item with that id, 0 when there is none
RECURSIVE find_order_item(_, _, _)
find_order_item(items, item_id, k) ==
  IF k > Len(items) THEN 0
  ELSE IF items[k].id = item_id THEN k
  ELSE find_order_item(items, item_id, k + 1)

\* the over-receipt check of receive_order
exceeds_never(new_received, quantity) == FALSE
exceeds_ordered(new_received, quantity) == new_received > quantity

\* the loop over receive_data.items of receive_order, from line i on
RECURSIVE receive_lines(_, _, _, _)
receive_lines(S, order_id, lines, i) ==
  IF i > Len(lines) THEN [code |-> 200, S |-> S]
  ELSE
    LET db_order == S.orders[order_id]
        receive_item == lines[i]
        k == find_order_item(db_order.items, receive_item.item_id, 1)
    IN
    IF k = 0 THEN [code |-> 404, S |-> S]
    ELSE
      LET order_item == db_order.items[k]
          new_received == order_item.received_quantity + receive_item.received_quantity
      IN
      IF exceeds_ordered(new_received, order_item.quantity) THEN [code |-> 400, S |-> S]
      ELSE
        LET S1 == [S EXCEPT !.orders[order_id].items[k].received_quantity = new_received]
            t == _transfer_inventory(S1, order_item.product_id, db_order.warehouse_id,
                                     "in_transit", "semi_finished",
                                     receive_item.received_quantity)
        IN
        IF ~t.ok THEN [code |-> 400, S |-> t.S]
        ELSE receive_lines(
               _create_inventory_transaction(t.S, order_item.product_id,
                  db_order.warehouse_id, "arrival", receive_item.received_quantity,
                  order_id, "in_transit", "semi_finished"),
               order_id, lines, i + 1)

\* the status receive_order leaves after the lines were processed
status_after_receive(db_order) ==
  LET all_items_received ==
        \A k \in 1..Len(db_order.items) :
           db_order.items[k].received_quantity = db_order.items[k].quantity
      any_items_received ==
        \E k \in 1..Len(db_order.items) : db_order.items[k].received_quantity > 0
  IN IF all_items_received THEN COMPLETED
     ELSE IF any_items_received THEN PARTIAL
     ELSE db_order.status

\* if db_order.status == OrderStatus.COMPLETED: raise
is_completed_ignored(db_order) == FALSE
is_completed(db_order) == db_order.status = COMPLETED

receive_order(S, order_id, receive_data) ==
  LET db_order == S.orders[order_id] IN
  IF ~db_order.exists THEN Raised(404, S)
  ELSE IF is_completed(db_order) THEN Raised(400, S)
  ELSE
    LET r == receive_lines(S, order_id, receive_data, 1) IN
    IF r.code # 200 THEN Raised(r.code, r.S)
    ELSE Committed(
           [r.S EXCEPT !.orders[order_id].status = status_after_receive(r.S.orders[order_id])],
           [status |-> status_after_receive(r.S.orders[order_id])])

\* the loop over db_order.items of delete_purchase_order, from item i on
RECURSIVE cancel_order_items(_, _, _)
cancel_order_items(S, order_id, i) ==
  LET db_order == S.orders[order_id] IN
  IF i > Len(db_order.items) THEN S
  ELSE
    LET item == db_order.items[i]
        S1 == _update_inventory_in_transit(S, item.product_id, db_order.warehouse_id,
                                           -item.quantity)
        S2 == _create_inventory_transaction(S1, item.product_id, db_order.warehouse_id,
                                            "cancel_purchase", -item.quantity, order_id,
                                            "in_transit", None)
    IN cancel_order_items(S2, order_id, i + 1)

\* db.delete(db_order) at flush: PurchaseOrder.items has no delete cascade, so the
\* unit of work sets purchase_order_id of every item to NULL, which the column
\* (nullable=False) refuses; the flush succeeds only for an order without items
delete_flushes(db_order) == db_order.items = <<>>

delete_purchase_order(S, order_id) ==
  LET db_order == S.orders[order_id] IN
  IF ~db_order.exists THEN Raised(404, S)
  ELSE IF not_pending(db_order) THEN Raised(400, S)
  ELSE
    LET S1 == cancel_order_items(S, order_id, 1) IN
    IF delete_flushes(db_order)
      THEN Committed([S1 EXCEPT !.orders[order_id] = NoPurchaseOrder], [id |-> order_id])
      ELSE Raised(500, S1)

(* ---------- pack and ship of base products (inventory.py) ---------- *)
\* _transfer_inventory of inventory.py, a copy of the one of purchase_orders.py
inventory_transfer_inventory(S, product_id, warehouse_id, from_status, to_status, quantity) ==
  LET inventory == S.inv[product_id, warehouse_id] IN
  IF ~inventory.exists THEN [ok |-> FALSE, S |-> S]
  ELSE IF inventory[from_status] < quantity THEN [ok |-> FALSE, S |-> S]
  ELSE [ok |-> TRUE,
        S |-> [S EXCEPT !.inv[product_id, warehouse_id] =
                 transfer_row(inventory, from_status, to_status, quantity),
               !.transfers = Append(@,
                 [product_id |-> product_id, warehouse_id |-> warehouse_id,
                  from_status |-> from_status, to_status |-> to_status,
                  quantity |-> quantity, before |-> inventory,
                  after |-> transfer_row(inventory, from_status, to_status, quantity)])]]

\* needed_quantity = relation.quantity * request.quantity
pack_needed_one_each(relation, quantity) == quantity
pack_needed_quantity(relation, quantity) == relation.quantity * quantity

\* the loop over packaging_relations of package_products, from relation i on
RECURSIVE consume_packaging(_, _, _, _, _)
consume_packaging(S, warehouse_id, relations, quantity, i) ==
  IF i > Len(relations) THEN [ok |-> TRUE, S |-> S]
  ELSE
    LET relation == relations[i]
        needed_quantity == pack_needed_quantity(relation, quantity)
        packaging_inventory == S.inv[relation.packaging_id, warehouse_id]
    IN
    IF ~packaging_inventory.exists \/ packaging_inventory.semi_finished < needed_quantity
      THEN [ok |-> FALSE, S |-> S]
      ELSE consume_packaging(
             _create_inventory_transaction(
               [S EXCEPT !.inv[relation.packaging_id, warehouse_id].semi_finished =
                           @ - needed_quantity],
               relation.packaging_id, warehouse_id, "packaging_consumption",
               -needed_quantity, None, "semi_finished", None),
             warehouse_id, relations, quantity, i + 1)

package_products(S, product, request) ==
  IF ~product.exists THEN Raised(404, S)
  ELSE
    LET c == IF product.sale_type # "product" THEN [ok |-> TRUE, S |-> S]
             ELSE IF product.packaging_relations # <<>>
               THEN consume_packaging(S, request.warehouse_id,
                                      product.packaging_relations, request.quantity, 1)
             ELSE IF product.packaging_id # None
               \* the legacy single packaging: one unit per packed product
               THEN consume_packaging(S, request.warehouse_id,
                      <<[packaging_id |-> product.packaging_id, quantity |-> 1]>>,
                      request.quantity, 1)
             ELSE [ok |-> TRUE, S |-> S]
    IN
    IF ~c.ok THEN Raised(400, c.S)
    ELSE
      LET t == inventory_transfer_inventory(c.S, request.product_id, request.warehouse_id,
                                            "semi_finished", "finished", request.quantity)
      IN IF ~t.ok THEN Raised(400, t.S)
         ELSE Committed(
                _create_inventory_transaction(t.S, request.product_id,
                   request.warehouse_id, "pack", request.quantity, None,
                   "semi_finished", "finished"),
                [quantity |-> request.quantity])

ship_products(S, request) ==
  LET t == inventory_transfer_inventory(S, request.product_id, request.warehouse_id,
                                        "finished", "shipped", request.quantity)
  IN IF ~t.ok THEN Raised(400, t.S)
     ELSE Committed(
            _create_inventory_transaction(t.S, request.product_id, request.warehouse_id,
               "ship", request.quantity, None, "finished", "shipped"),
            [quantity |-> request.quantity])

(* ---------- combo availability (combo_products.py) ---------- *)
\* min_available starts as float('inf')
Infinity == [inf |-> TRUE, n |-> 0]
\* min(min_available, x)
min_available_ignoring(m, x) == m
min_available_with(m, x) ==
  IF m.inf THEN [inf |-> FALSE, n |-> x] ELSE [inf |-> FALSE, n |-> Min(m.n, x)]

\* the loop over item.packaging_relations of calculate_available_to_assemble
RECURSIVE available_item_packaging(_, _, _, _, _)
available_item_packaging(inventory, warehouse_id, item, j, m) ==
  IF j > Len(item.packaging_relations) THEN [zero |-> FALSE, m |-> m]
  ELSE
    LET packaging_relation == item.packaging_relations[j]
        packaging_inventory == inventory[packaging_relation.packaging_id, warehouse_id]
    IN
    IF ~packaging_inventory.exists THEN [zero |-> TRUE, m |-> m]
    ELSE
      LET base_product_quantity_from_packaging ==
            FloorDiv(packaging_inventory.semi_finished, packaging_relation.quantity)
          available_from_packaging ==
            FloorDiv(base_product_quantity_from_packaging, item.quantity)
      IN available_item_packaging(inventory, warehouse_id, item, j + 1,
                                  min_available_with(m, available_from_packaging))

\* the loop over combo_product.combo_items of calculate_available_to_assemble
RECURSIVE available_items(_, _, _, _, _)
available_items(inventory, warehouse_id, combo_items, i, m) ==
  IF i > Len(combo_items) THEN [zero |-> FALSE, m |-> m]
  ELSE
    LET item == combo_items[i]
        base_inventory == inventory[item.base_product_id, warehouse_id]
    IN
    IF ~base_inventory.exists THEN [zero |-> TRUE, m |-> m]
    ELSE
      LET available_for_this_item == FloorDiv(base_inventory.semi_finished, item.quantity)
          p == available_item_packaging(inventory, warehouse_id, item, 1,
                                        min_available_with(m, available_for_this_item))
      IN IF p.zero THEN p
         ELSE available_items(inventory, warehouse_id, combo_items, i + 1, p.m)

\* the loop over combo_product.packaging_relations of calculate_available_to_assemble
RECURSIVE available_combo_packaging_skipping(_, _, _, _, _)
available_combo_packaging_skipping(inventory, warehouse_id, relations, j, m) ==
  IF j > Len(relations) THEN [zero |-> FALSE, m |-> m]
  ELSE
    LET packaging_relation == relations[j]
        packaging_inventory == inventory[packaging_relation.packaging_id, warehouse_id]
    IN
    IF ~packaging_inventory.exists
      THEN available_combo_packaging_skipping(inventory, warehouse_id, relations, j + 1, m)
    ELSE
      LET available_from_combo_packaging ==
            FloorDiv(packaging_inventory.semi_finished, packaging_relation.quantity)
      IN available_combo_packaging_skipping(inventory, warehouse_id, relations, j + 1,
                                   min_available_with(m, available_from_combo_packaging))
RECURSIVE available_combo_packaging(_, _, _, _, _)
available_combo_packaging(inventory, warehouse_id, relations, j, m) ==
  IF j > Len(relations) THEN [zero |-> FALSE, m |-> m]
  ELSE
    LET packaging_relation == relations[j]
        packaging_inventory == inventory[packaging_relation.packaging_id, warehouse_id]
    IN
    IF ~packaging_inventory.exists THEN [zero |-> TRUE, m |-> m]
    ELSE
      LET available_from_combo_packaging ==
            FloorDiv(packaging_inventory.semi_finished, packaging_relation.quantity)
      IN available_combo_packaging(inventory, warehouse_id, relations, j + 1,
                                   min_available_with(m, available_from_combo_packaging))

calculate_available_to_assemble(combo_product, warehouse_id, inventory) ==
  IF combo_product.combo_items = <<>> THEN 0
  ELSE
    LET a == available_items(inventory, warehouse_id, combo_product.combo_items, 1, Infinity)
    IN
    IF a.zero THEN 0
    ELSE
      LET b == available_combo_packaging(inventory, warehouse_id,
                                         combo_product.packaging_relations, 1, a.m)
      IN IF b.zero THEN 0
         ELSE IF b.m.inf THEN 0 ELSE b.m.n

(* ---------- assemble and ship of combos (combo_products.py) ---------- *)
\* one deduction of assemble_combo_product: the record must exist and hold the amount
deduct_semi_finished_unchecked(S, product_id, warehouse_id, needed) ==
  LET record == S.inv[product_id, warehouse_id] IN
  IF ~record.exists THEN [ok |-> FALSE, S |-> S]
  ELSE [ok |-> TRUE,
        S |-> [S EXCEPT !.inv[product_id, warehouse_id].semi_finished = @ - needed]]
deduct_semi_finished(S, product_id, warehouse_id, needed) ==
  LET record == S.inv[product_id, warehouse_id] IN
  IF ~record.exists \/ record.semi_finished < needed THEN [ok |-> FALSE, S |-> S]
  ELSE [ok |-> TRUE,
        S |-> [S EXCEPT !.inv[product_id, warehouse_id].semi_finished = @ - needed]]

\* the loop over item.packaging_relations of assemble_combo_product
RECURSIVE assemble_item_packaging(_, _, _, _, _)
assemble_item_packaging(S, warehouse_id, item, needed_quantity, j) ==
  IF j > Len(item.packaging_relations) THEN [ok |-> TRUE, S |-> S]
  ELSE
    LET packaging_relation == item.packaging_relations[j]
        packaging_needed == packaging_relation.quantity * needed_quantity
        d == deduct_semi_finished(S, packaging_relation.packaging_id, warehouse_id,
                                  packaging_needed)
    IN IF ~d.ok THEN d
       ELSE assemble_item_packaging(d.S, warehouse_id, item, needed_quantity, j + 1)

\* the loop over combo_product.combo_items of assemble_combo_product
RECURSIVE assemble_items(_, _, _, _, _)
assemble_items(S, warehouse_id, combo_items, quantity, i) ==
  IF i > Len(combo_items) THEN [ok |-> TRUE, S |-> S]
  ELSE
    LET item == combo_items[i]
        needed_quantity == item.quantity * quantity
        d == deduct_semi_finished(S, item.base_product_id, warehouse_id, needed_quantity)
    IN
    IF ~d.ok THEN d
    ELSE
      LET p == assemble_item_packaging(d.S, warehouse_id, item, needed_quantity, 1)
      IN IF ~p.ok THEN p
         ELSE assemble_items(p.S, warehouse_id, combo_items, quantity, i + 1)

\* the loop over combo_product.packaging_relations of assemble_combo_product
RECURSIVE assemble_combo_packaging(_, _, _, _, _)
assemble_combo_packaging(S, warehouse_id, relations, quantity, j) ==
  IF j > Len(relations) THEN [ok |-> TRUE, S |-> S]
  ELSE
    LET packaging_relation == relations[j]
        packaging_needed == packaging_relation.quantity * quantity
        d == deduct_semi_finished(S, packaging_relation.packaging_id, warehouse_id,
                                  packaging_needed)
    IN IF ~d.ok THEN d
       ELSE assemble_combo_packaging(d.S, warehouse_id, relations, quantity, j + 1)

\* step 3 of assemble_combo_product: the finished increment and the log row
assemble_finish_no_increment(S, request) ==
  LET key == <<request.combo_product_id, request.warehouse_id>>
      combo_inventory ==
        IF S.comboInv[key].exists THEN S.comboInv[key]
        ELSE [exists |-> TRUE, finished |-> 0, shipped |-> 0]
  IN [S EXCEPT
        !.comboInv[key] = combo_inventory,
        !.comboTx = Append(@,
           [combo_product_id |-> request.combo_product_id,
            warehouse_id |-> request.warehouse_id,
            transaction_type |-> "assemble", quantity |-> request.quantity])]
assemble_finish(S, request) ==
  LET key == <<request.combo_product_id, request.warehouse_id>>
      combo_inventory ==
        IF S.comboInv[key].exists THEN S.comboInv[key]
        ELSE [exists |-> TRUE, finished |-> 0, shipped |-> 0]
  IN [S EXCEPT
        !.comboInv[key] = [combo_inventory EXCEPT !.finished = @ + request.quantity],
        !.comboTx = Append(@,
           [combo_product_id |-> request.combo_product_id,
            warehouse_id |-> request.warehouse_id,
            transaction_type |-> "assemble", quantity |-> request.quantity])]

\* the availability check in front of the try block
assemble_check_skipped(quantity, available) == FALSE
assemble_rejects(quantity, available) == quantity > available

\* except Exception: await db.rollback() -- the session returns to the database
rollback_keeps_writes(S0, S) == S
rollback(S0, S) == S0

assemble_combo_product(S, combo_product, request) ==
  IF ~combo_product.exists THEN Raised(404, S)
  ELSE
    LET available_to_assemble ==
          calculate_available_to_assemble(combo_product, request.warehouse_id, S.inv)
    IN
    IF assemble_rejects(request.quantity, available_to_assemble) THEN Raised(400, S)
    ELSE
      LET a == assemble_items(S, request.warehouse_id, combo_product.combo_items,
                              request.quantity, 1)
      IN
      IF ~a.ok THEN Raised(500, rollback(S, a.S))
      ELSE
        LET b == assemble_combo_packaging(a.S, request.warehouse_id,
                                          combo_product.packaging_relations,
                                          request.quantity, 1)
        IN IF ~b.ok THEN Raised(500, rollback(S, b.S))
           ELSE Committed(assemble_finish(b.S, request), [quantity |-> request.quantity])

\* the stock check of ship_combo_product
ship_check_skipped(finished, quantity) == FALSE
ship_rejects(finished, quantity) == finished < quantity

\* combo_inventory.finished -= request.quantity; combo_inventory.shipped += request.quantity
ship_record_not_shipped(combo_inventory, quantity) ==
  [combo_inventory EXCEPT !.finished = @ - quantity]
ship_record(combo_inventory, quantity) ==
  [combo_inventory EXCEPT !.finished = @ - quantity, !.shipped = @ + quantity]

ship_combo_product(S, request) ==
  LET key == <<request.combo_product_id, request.warehouse_id>>
      combo_inventory == S.comboInv[key]
  IN
  IF ~combo_inventory.exists THEN Raised(404, S)
  ELSE IF ship_rejects(combo_inventory.finished, request.quantity) THEN Raised(400, S)
  ELSE Committed(
         [S EXCEPT
            !.comboInv[key] = ship_record(combo_inventory, request.quantity),
            !.comboTx = Append(@,
               [combo_product_id |-> request.combo_product_id,
                warehouse_id |-> request.warehouse_id,
                transaction_type |-> "ship", quantity |-> request.quantity])],
         [quantity |-> request.quantity])

\* a combo id without a row in combo_products
NoComboProduct == [exists |-> FALSE, combo_items |-> <<>>, packaging_relations |-> <<>>]

\* select(ComboInventoryRecord).where(combo_product_id == id, finished > 0)
stocked_combo_records(S, combo_product_id) ==
  { w \in Warehouses : /\ S.comboInv[combo_product_id, w].exists
                       /\ S.comboInv[combo_product_id, w].finished > 0 }

\* db.delete(db_combo_product): inventory_records and inventory_transactions are
\* relationships with cascade="all, delete-orphan", their rows go with the combo
cascade_delete(S, combo_product_id) ==
  LET other(row) == row.combo_product_id # combo_product_id IN
  [S EXCEPT !.comboInv = [k \in DOMAIN S.comboInv |->
                            IF k[1] = combo_product_id THEN NoComboInventoryRecord
                            ELSE S.comboInv[k]],
            !.comboTx = SelectSeq(S.comboTx, other)]

\* scalar_one_or_none() raises MultipleResultsFound when two records hold stock
delete_combo_product(S, db_combo_product, combo_product_id) ==
  LET stocked == stocked_combo_records(S, combo_product_id) IN
  IF ~db_combo_product.exists THEN Raised(404, S)
  ELSE IF Cardinality(stocked) > 1 THEN Raised(500, S)
  ELSE IF Cardinality(stocked) = 1 THEN Raised(400, S)
  ELSE Committed(cascade_delete(S, combo_product_id), [detail |-> None])

(* ---------- catalogue configurations ---------- *)
Relation(packaging_id, quantity) == [packaging_id |-> packaging_id, quantity |-> quantity]
ComboItem(base_product_id, quantity, packaging_relations) ==
  [base_product_id |-> base_product_id, quantity |-> quantity,
   packaging_relations |-> packaging_relations]
Product(sale_type, packaging_id, packaging_relations) ==
  [exists |-> TRUE, sale_type |-> sale_type, packaging_id |-> packaging_id,
   packaging_relations |-> packaging_relations]
Combo(combo_items, packaging_relations) ==
  [exists |-> TRUE, combo_items |-> combo_items, packaging_relations |-> packaging_relations]

\* product tables: A packed with the relation table, with the legacy column, or bare
ProductsByRelation ==
  [p \in Products |->
     IF p = "P" THEN Product("packaging", None, <<>>)
     ELSE IF p = "A" THEN Product("product", None, <<Relation("P", 1)>>)
     ELSE Product("product", None, <<>>)]
ProductsLegacy ==
  [p \in Products |->
     IF p = "P" THEN Product("packaging", None, <<>>)
     ELSE IF p = "A" THEN Product("product", "P", <<>>)
     ELSE Product("product", None, <<>>)]

\* 2 x A and one P per combo (the scenario of the specification)
ComboTwoAOneP == Combo(<<ComboItem("A", 2, <<>>)>>, <<Relation("P", 1)>>)
\* P is needed by the combo item and by the combo itself
ComboSharedP == Combo(<<ComboItem("A", 1, <<Relation("P", 1)>>)>>, <<Relation("P", 1)>>)
\* a combo without composition
ComboNoItems == Combo(<<>>, <<Relation("P", 1)>>)
\* the same base product in two items, no combo packaging
ComboTwiceA == Combo(<<ComboItem("A", 1, <<>>), ComboItem("A", 1, <<>>)>>, <<>>)

Catalogues ==
  { [products |-> ProductsByRelation, combos |-> [c \in ComboIds |-> ComboTwoAOneP]],
    [products |-> ProductsLegacy,     combos |-> [c \in ComboIds |-> ComboSharedP]],
    [products |-> ProductsLegacy,     combos |-> [c \in ComboIds |-> ComboNoItems]] }

\* unit prices of the purchase order lines
UnitPrice == [p \in Products |-> IF p = "A" THEN 30 ELSE IF p = "B" THEN 20 ELSE 10]
\* a price below one hundredth
SubCentPrice == 4

(* ---------- requests ---------- *)
\* products that are purchased
OrderedProducts == {"A", "P"}
OrderLines ==
  { [product_id |-> p, quantity |-> q, unit_price |-> UnitPrice[p]] :
      p \in OrderedProducts, q \in 1..MaxQty }
\* PurchaseOrderCreate.items: min_length=1, quantity gt=0
\* one line of A; A on two lines; A and P
OrderItemLists ==
  { <<l>> : l \in {x \in OrderLines : x.product_id = "A"} }
  \cup { <<l1, l2>> \in OrderLines \X OrderLines :
           /\ l1.product_id = "A" /\ l1.quantity = 1
           /\ \/ l2.product_id = "A" /\ l2.quantity = 1
              \/ l2.product_id = "P" /\ l2.quantity = MaxQty }
PurchaseOrderCreate == [warehouse_id : Warehouses, items : OrderItemLists]
\* orders of one line of A at a price below one hundredth
SubCentOrderCreate ==
  [warehouse_id : Warehouses,
   items : { <<[product_id |-> "A", quantity |-> q, unit_price |-> SubCentPrice]>> :
               q \in 1..MaxQty }]

\* PurchaseOrderUpdate: every field optional
PurchaseOrderUpdate ==
  [warehouse_id : Warehouses \cup {None}, status : OrderStatus \cup {None}]

\* ReceiveOrderRequest.items: min_length=1, received_quantity ge=0
ItemIds == 1..(2 * MaxOrders)
ReceiveItemRequest == [item_id : ItemIds, received_quantity : 0..MaxQty]
\* one line, or two lines that each deliver something
ReceiveOrderRequest ==
  { <<l>> : l \in ReceiveItemRequest }
  \cup { <<l1, l2>> \in ReceiveItemRequest \X ReceiveItemRequest :
           l1.received_quantity >= 1 /\ l2.received_quantity >= 1 }

\* PackagingRequest / ShippingRequest: quantity gt=0
\* the warehouse whose stock is packed, assembled and shipped
StockWarehouses == {"W1"}
PackagingRequest ==
  [product_id : OrderedProducts, warehouse_id : StockWarehouses, quantity : 1..MaxQty]
ShippingRequest ==
  [product_id : OrderedProducts, warehouse_id : StockWarehouses, quantity : 1..MaxQty]

\* ComboProductAssembleRequest / ComboProductShipRequest: quantity is a plain int.
\* The schema classes declare combo_product_id, quantity and notes only, while both
\* handlers read request.warehouse_id; the requests carry the fields the handlers read.
ComboQuantities == (-1)..MaxQty
ComboProductAssembleRequest ==
  [combo_product_id : ComboIds, warehouse_id : StockWarehouses, quantity : ComboQuantities]
ComboProductShipRequest ==
  [combo_product_id : ComboIds, warehouse_id : StockWarehouses, quantity : ComboQuantities]

(* ---------- the system ---------- *)
NoRequest == [none |-> None]

\* create_combo_product adds a ComboInventoryRecord for each warehouse of the request
ComboWarehouses == {"W2"}

\* the database before the first purchase order; ComboInventoryRecords exist for
\* the warehouses the combo was created for
EmptyDb(combo_warehouses) ==
  [inv |-> [k \in Products \X Warehouses |-> NoInventoryRecord],
   comboInv |-> [k \in ComboIds \X Warehouses |->
                   IF k[2] \in combo_warehouses
                     THEN [exists |-> TRUE, finished |-> 0, shipped |-> 0]
                     ELSE NoComboInventoryRecord],
   orders |-> [o \in 1..MaxPairOrders |-> NoPurchaseOrder],
   invTx |-> <<>>,
   comboTx |-> <<>>,
   transfers |-> <<>>]

\* the clients whose requests interleave
Clients == 1..2
NoRow ==
  [product_id |-> None, warehouse_id |-> None,
   in_transit |-> 0, semi_finished |-> 0, finished |-> 0, shipped |-> 0]
\* no request in flight; code is the status of the client's last response
IdleSession ==
  [pc |-> "idle", op |-> None, request |-> NoRequest, loaded |-> [index |-> 0, row |-> NoRow],
   order_id |-> 0, item_id |-> 0, code |-> 0, sent |-> 0]
\* one request at a time: no session is open between the calls
Serial == sessions = [c \in Clients |-> IdleSession] /\ inventory_records = <<>>

StartCall ==
  [op |-> "start", code |-> 200, body |-> [detail |-> None], request |-> NoRequest,
   transfers |-> <<>>, applied |-> 0, logged |-> 0]

EmptyDatabase ==
  /\ inv = EmptyDb(ComboWarehouses).inv
  /\ comboInv = EmptyDb(ComboWarehouses).comboInv
  /\ orders = EmptyDb(ComboWarehouses).orders
  /\ invTx = <<>>
  /\ comboTx = <<>>
  /\ idSeq = [order |-> 1, item |-> 1]
  /\ call = StartCall
  /\ Serial

Init == EmptyDatabase /\ \E k \in Catalogues : products = k.products /\ combos = k.combos

\* the request ends: the session is closed and the response is sent; call keeps
\* the request of a committed call, and the endpoint and status code of a failed one;
\* applied is the number of transfers the session had made when the handler ended,
\* logged the number of inventory transaction rows it had added.
\* A delete, whose request is the order id of the path alone, keeps it either way.
Answer(op, kept, r) ==
  LET D == get_db(Database, r) IN
  /\ Len(D.invTx) <= MaxInvTx
  /\ Len(D.comboTx) <= MaxComboTx
  /\ inv' = D.inv
  /\ comboInv' = D.comboInv
  /\ orders' = D.orders
  /\ invTx' = D.invTx
  /\ comboTx' = D.comboTx
  /\ call' = [op |-> op, code |-> r.code, body |-> r.body,
              request |-> kept,
              transfers |-> D.transfers, applied |-> Len(r.session.transfers),
              logged |-> Len(r.session.invTx) - Len(invTx)]
  /\ UNCHANGED <<catalogue, concurrent>>

Respond(op, request, r) ==
  Answer(op, IF r.committed THEN request ELSE NoRequest, r)

CreatePurchaseOrder(order_data) ==
  /\ idSeq.order <= MaxPairOrders
  /\ Respond("create_purchase_order", order_data,
             create_purchase_order(Database, idSeq, order_data))
  /\ idSeq' = [order |-> idSeq.order + 1, item |-> idSeq.item + Len(order_data.items)]

UpdatePurchaseOrder(order_id, order_data) ==
  /\ Respond("update_purchase_order", [order_id |-> order_id, order_data |-> order_data],
             update_purchase_order(Database, order_id, order_data))
  /\ UNCHANGED idSeq

ReceiveOrder(order_id, receive_data) ==
  /\ Respond("receive_order", [order_id |-> order_id, items |-> receive_data],
             receive_order(Database, order_id, receive_data))
  /\ UNCHANGED idSeq

DeletePurchaseOrder(order_id) ==
  /\ Answer("delete_purchase_order", [order_id |-> order_id],
             delete_purchase_order(Database, order_id))
  /\ UNCHANGED idSeq

PackageProducts(request) ==
  /\ Respond("package_products", request,
             package_products(Database, products[request.product_id], request))
  /\ UNCHANGED idSeq

ShipProducts(request) ==
  /\ Respond("ship_products", request, ship_products(Database, request))
  /\ UNCHANGED idSeq

AssembleComboProduct(request) ==
  /\ Respond("assemble_combo_product", request,
             assemble_combo_product(Database, combos[request.combo_product_id], request))
  /\ UNCHANGED idSeq

ShipComboProduct(request) ==
  /\ Respond("ship_combo_product", request, ship_combo_product(Database, request))
  /\ UNCHANGED idSeq

\* purchase orders of the stock flow: MaxQty units of A, of P, or of both
StockItemLists ==
  { <<l>> : l \in {x \in OrderLines : x.quantity = MaxQty} }
  \cup { <<l1, l2>> \in OrderLines \X OrderLines :
           /\ l1.product_id = "A" /\ l2.product_id = "P"
           /\ l1.quantity = MaxQty /\ l2.quantity = MaxQty }
StockOrderCreate == [warehouse_id : StockWarehouses, items : StockItemLists]
\* receipts of the stock flow: one or two lines that each deliver something
StockReceiveRequest ==
  { r \in ReceiveOrderRequest :
      \A i \in 1..Len(r) :
         r[i].received_quantity >= 1 /\ r[i].item_id <= 2 * MaxOrders }

\* purchasing, receiving, packing, assembling and shipping
Next ==
  \/ \E order_data \in StockOrderCreate :
       idSeq.order <= MaxOrders /\ CreatePurchaseOrder(order_data)
  \/ \E order_id \in 1..MaxOrders, receive_data \in StockReceiveRequest :
       ReceiveOrder(order_id, receive_data)
  \/ \E order_id \in 1..MaxOrders : DeletePurchaseOrder(order_id)
  \/ \E request \in PackagingRequest : PackageProducts(request)
  \/ \E request \in ShippingRequest : ShipProducts(request)
  \/ \E request \in ComboProductAssembleRequest : AssembleComboProduct(request)
  \/ \E request \in ComboProductShipRequest : ShipComboProduct(request)

Spec == Init /\ [][Next]_vars

\* the purchase order life cycle alone: create, update, receive, delete
NextPO ==
  \/ \E order_data \in PurchaseOrderCreate \cup SubCentOrderCreate :
       idSeq.order <= MaxOrders /\ CreatePurchaseOrder(order_data)
  \/ \E order_id \in 1..MaxOrders, order_data \in PurchaseOrderUpdate :
       UpdatePurchaseOrder(order_id, order_data)
  \/ \E order_id \in 1..MaxOrders, receive_data \in ReceiveOrderRequest :
       ReceiveOrder(order_id, receive_data)
  \/ \E order_id \in 1..MaxOrders : DeletePurchaseOrder(order_id)

InitPO ==
  EmptyDatabase /\ products = ProductsByRelation /\ combos = [c \in ComboIds |-> ComboTwoAOneP]

SpecPO == InitPO /\ [][NextPO]_vars

(* ---------- two purchase orders on one stock record ---------- *)
OrderIds == 1..MaxPairOrders
\* orders of one line of A, for either warehouse
PairItemLists ==
  { <<[product_id |-> "A", quantity |-> q, unit_price |-> UnitPrice["A"]]>> :
      q \in 1..MaxQty }
PairOrderCreate == [warehouse_id : Warehouses, items : PairItemLists]
\* updates that move the order to a warehouse
PairOrderUpdate == [warehouse_id : Warehouses, status : {None}]
\* receipts of one line, or of one unit twice on the same item
PairReceiveRequest ==
  { <<l>> : l \in [item_id : OrderIds, received_quantity : 1..MaxQty] }
  \cup { <<l, l>> : l \in [item_id : OrderIds, received_quantity : {1}] }

NextPair ==
  \/ \E order_data \in PairOrderCreate : CreatePurchaseOrder(order_data)
  \/ \E order_id \in OrderIds, order_data \in PairOrderUpdate :
       UpdatePurchaseOrder(order_id, order_data)
  \/ \E order_id \in OrderIds, receive_data \in PairReceiveRequest :
       ReceiveOrder(order_id, receive_data)
  \/ \E order_id \in OrderIds : DeletePurchaseOrder(order_id)

SpecPair == InitPO /\ [][NextPair]_vars

(* ---------- the combo engine on received stock ---------- *)
\* get_combo_inventory_summary: finished, shipped and available_to_assemble of
\* every ComboInventoryRecord of the warehouse
get_combo_inventory_summary(S, combo_products, warehouse_id) ==
  [c \in {x \in ComboIds : S.comboInv[x, warehouse_id].exists} |->
     [finished |-> S.comboInv[c, warehouse_id].finished,
      shipped |-> S.comboInv[c, warehouse_id].shipped,
      available_to_assemble |->
        calculate_available_to_assemble(combo_products[c], warehouse_id, S.inv)]]

GetComboInventorySummary(warehouse_id) ==
  /\ call' = [op |-> "get_combo_inventory_summary", code |-> 200,
              body |-> [summary |-> get_combo_inventory_summary(Database, combos, warehouse_id)],
              request |-> [warehouse_id |-> warehouse_id], transfers |-> <<>>,
              applied |-> 0, logged |-> 0]
  /\ UNCHANGED <<inv, comboInv, orders, invTx, comboTx, idSeq, products, combos, concurrent>>

\* A and B with item packaging, and a combo packaging
ComboAB ==
  Combo(<<ComboItem("A", 1, <<Relation("P", 2)>>), ComboItem("B", 2, <<>>)>>,
        <<Relation("P", 1)>>)
\* 2 x A, each A wrapped in 2 x P: the two-level floor division
ComboNested == Combo(<<ComboItem("A", 2, <<Relation("P", 2)>>)>>, <<>>)
ComboCatalogue ==
  {ComboTwoAOneP, ComboSharedP, ComboNoItems, ComboTwiceA, ComboAB, ComboNested}

\* the products in the order of the purchase order lines
ProductOrder == <<"A", "B", "P">>
OrderedSeq(ordered) ==
  LET P(x) == x \in ordered IN SelectSeq(ProductOrder, P)

\* the database after the combo was created for combo_warehouses, one purchase
\* order for warehouse W1 with MaxStock units of each product of `ordered` was
\* created and received[p] units of each were received
ReceivedStock(combo_warehouses, ordered, received) ==
  LET ps == OrderedSeq(ordered)
      items == [i \in 1..Len(ps) |->
                  [product_id |-> ps[i], quantity |-> MaxStock,
                   unit_price |-> UnitPrice[ps[i]]]]
      lines == [i \in 1..Len(ps) |->
                  [item_id |-> i, received_quantity |-> received[ps[i]]]]
      D0 == EmptyDb(combo_warehouses)
      D1 == create_purchase_order(D0, [order |-> 1, item |-> 1],
                                  [warehouse_id |-> "W1", items |-> items]).session
      D2 == receive_order(D1, 1, lines).session
  IN IF ps = <<>> THEN D0 ELSE [D2 EXCEPT !.transfers = <<>>]

InitCombo ==
  \E ordered \in SUBSET Products :
    \E received \in [Products -> 0..MaxStock] :
      /\ \A p \in Products \ ordered : received[p] = 0
      /\ \E combo_warehouses \in {{"W1"}, ComboWarehouses} :
         LET D == ReceivedStock(combo_warehouses, ordered, received) IN
           /\ inv = D.inv
           /\ comboInv = D.comboInv
           /\ orders = D.orders
           /\ invTx = D.invTx
           /\ comboTx = D.comboTx
           /\ idSeq = [order |-> IF ordered = {} THEN 1 ELSE 2,
                       item |-> 1 + Cardinality(ordered)]
      /\ products = ProductsByRelation
      /\ \E b \in ComboCatalogue : combos = [c \in ComboIds |-> b]
      /\ call = StartCall
      /\ Serial

NextCombo ==
  \/ \E warehouse_id \in StockWarehouses : GetComboInventorySummary(warehouse_id)
  \/ \E request \in ComboProductAssembleRequest : AssembleComboProduct(request)
  \/ \E request \in ComboProductShipRequest : ShipComboProduct(request)

SpecCombo == InitCombo /\ [][NextCombo]_vars

(* ---------- the life of a combo: assembled, shipped, deleted ---------- *)
DeleteComboProduct(combo_product_id) ==
  LET r == delete_combo_product(Database, combos[combo_product_id], combo_product_id)
      D == get_db(Database, r)
  IN
  /\ inv' = D.inv
  /\ comboInv' = D.comboInv
  /\ orders' = D.orders
  /\ invTx' = D.invTx
  /\ comboTx' = D.comboTx
  /\ combos' = IF r.committed THEN [combos EXCEPT ![combo_product_id] = NoComboProduct]
                ELSE combos
  /\ call' = [op |-> "delete_combo_product", code |-> r.code, body |-> r.body,
              request |-> [combo_product_id |-> combo_product_id],
              transfers |-> <<>>, applied |-> 0, logged |-> 0]
  /\ UNCHANGED <<idSeq, products, concurrent>>

InitComboLife == InitCombo /\ combos = [c \in ComboIds |-> ComboTwoAOneP]

NextComboLife ==
  \/ \E request \in ComboProductAssembleRequest : AssembleComboProduct(request)
  \/ \E request \in ComboProductShipRequest : ShipComboProduct(request)
  \/ \E combo_product_id \in ComboIds : DeleteComboProduct(combo_product_id)

SpecComboLife == InitComboLife /\ [][NextComboLife]_vars

(* ---------- packing of received stock ---------- *)
\* A takes 2 x P by relation and still names P as its legacy packaging; B has the
\* legacy packaging alone
ProductsPacked ==
  [p \in Products |->
     IF p = "P" THEN Product("packaging", None, <<>>)
     ELSE IF p = "A" THEN Product("product", "P", <<Relation("P", 2)>>)
     ELSE Product("product", "P", <<>>)]
\* in ProductsByRelation B is a product without any packaging
PackCatalogue == {ProductsPacked, ProductsByRelation}

\* PackagingRequest for any product: quantity gt=0
AnyPackagingRequest ==
  [product_id : Products, warehouse_id : StockWarehouses, quantity : 1..MaxQty]

InitPack ==
  \E ordered \in SUBSET Products :
    \E received \in [Products -> 0..MaxStock] :
      /\ \A p \in Products \ ordered : received[p] = 0
      /\ LET D == ReceivedStock(ComboWarehouses, ordered, received) IN
           /\ inv = D.inv
           /\ comboInv = D.comboInv
           /\ orders = D.orders
           /\ invTx = D.invTx
           /\ comboTx = D.comboTx
           /\ idSeq = [order |-> IF ordered = {} THEN 1 ELSE 2,
                       item |-> 1 + Cardinality(ordered)]
      /\ products \in PackCatalogue
      /\ combos = [c \in ComboIds |-> ComboTwoAOneP]
      /\ call = StartCall
      /\ Serial

NextPack == \E request \in AnyPackagingRequest : PackageProducts(request)

SpecPack == InitPack /\ [][NextPack]_vars

(* ---------- interleaved requests ---------- *)
\* Each request runs in its own AsyncSession (get_db) under the default isolation
\* of PostgreSQL, READ COMMITTED, and no handler locks a row. A handler first
\* SELECTs the rows it works on and checks them; its changes stay in the session
\* until db.commit() flushes them: an UPDATE that sets the changed columns to the
\* values computed from what the session had read, and the INSERTs. Between the two
\* steps of one request the steps of the other client's request may happen.

\* one B per combo
ComboOneB == Combo(<<ComboItem("B", 1, <<>>)>>, <<>>)

\* the rows of inventory_records for the records of a keyed table
KeyOrder ==
  << <<"A", "W1">>, <<"A", "W2">>, <<"B", "W1">>, <<"B", "W2">>, <<"P", "W1">>, <<"P", "W2">> >>
TableRow(k, record) ==
  [product_id |-> k[1], warehouse_id |-> k[2], in_transit |-> record.in_transit,
   semi_finished |-> record.semi_finished, finished |-> record.finished,
   shipped |-> record.shipped]
RECURSIVE TableRows(_, _)
TableRows(inventory, i) ==
  IF i > Len(KeyOrder) THEN <<>>
  ELSE (IF inventory[KeyOrder[i]].exists
          THEN <<TableRow(KeyOrder[i], inventory[KeyOrder[i]])>> ELSE <<>>)
       \o TableRows(inventory, i + 1)

\* select(InventoryRecord).where(product_id == p, warehouse_id == w)
RowsOf(rows, p, w) ==
  { i \in 1..Len(rows) : rows[i].product_id = p /\ rows[i].warehouse_id = w }

\* MaxStock units of B ordered and received for W1, `packed` of them packed and
\* `assembled` combos of one B assembled, each by its handler
StockedDatabase(packed, assembled) ==
  LET D1 == ReceivedStock({"W1"}, {"B"}, [p \in Products |-> IF p = "B" THEN MaxStock ELSE 0])
      D2 == package_products(D1, ProductsByRelation["B"],
              [product_id |-> "B", warehouse_id |-> "W1", quantity |-> packed]).session
  IN assemble_combo_product(D2, ComboOneB,
       [combo_product_id |-> "C", warehouse_id |-> "W1", quantity |-> assembled]).session

\* the empty database, or stock to ship; the table of inventory records is held in
\* inventory_records, the keyed inv stays empty
InitConcurrent ==
  \E D \in {EmptyDb({"W1"})}
           \cup { StockedDatabase(packed, assembled) : packed, assembled \in 1..MaxQty } :
    /\ inv = EmptyDb({"W1"}).inv
    /\ inventory_records = TableRows(D.inv, 1)
    /\ comboInv = D.comboInv
    /\ orders = D.orders
    /\ invTx = D.invTx
    /\ comboTx = D.comboTx
    /\ idSeq = IF D.orders[1].exists THEN [order |-> 2, item |-> 2]
               ELSE [order |-> 1, item |-> 1]
    /\ products = ProductsByRelation
    /\ combos = [c \in ComboIds |-> ComboOneB]
    /\ call = StartCall
    /\ sessions = [c \in Clients |-> IdleSession]

ConcurrentShipCombo ==
  [combo_product_id : ComboIds, warehouse_id : StockWarehouses, quantity : 1..MaxQty]
ConcurrentShip ==
  [product_id : {"B"}, warehouse_id : StockWarehouses, quantity : 1..MaxQty]
\* orders of one line of A, a product never stocked before
ConcurrentCreate ==
  [warehouse_id : Warehouses,
   items : { <<[product_id |-> "A", quantity |-> q, unit_price |-> UnitPrice["A"]]>> :
               q \in 1..MaxQty }]

\* client c may send a request
MaySend(c) == sessions[c].pc = "idle" /\ sessions[c].sent < MaxRequests
\* the response is sent and the session closed
Answered(c, code) == [IdleSession EXCEPT !.code = code, !.sent = sessions[c].sent + 1]
Loaded(c, op, request, index, row) ==
  [sessions[c] EXCEPT !.pc = "loaded", !.op = op, !.request = request,
                      !.loaded = [index |-> index, row |-> row]]

\* ship_combo_product up to its stock check
SelectShipCombo(c, request) ==
  LET combo_inventory == comboInv[request.combo_product_id, request.warehouse_id] IN
  /\ MaySend(c)
  /\ sessions' = [sessions EXCEPT ![c] =
       IF ~combo_inventory.exists THEN Answered(c, 404)
       ELSE IF ship_rejects(combo_inventory.finished, request.quantity) THEN Answered(c, 400)
       ELSE Loaded(c, "ship_combo_product", request, 0,
                   [NoRow EXCEPT !.finished = combo_inventory.finished,
                                 !.shipped = combo_inventory.shipped])]
  /\ UNCHANGED <<inv, comboInv, orders, invTx, comboTx, idSeq, products, combos, call,
                 inventory_records>>

\* ship_combo_product from the update of the loaded record to db.commit()
CommitShipCombo(c) ==
  LET request == sessions[c].request
      combo_inventory == ship_record(sessions[c].loaded.row, request.quantity)
  IN
  /\ sessions[c].pc = "loaded" /\ sessions[c].op = "ship_combo_product"
  /\ comboInv' = [comboInv EXCEPT ![request.combo_product_id, request.warehouse_id] =
                    [@ EXCEPT !.finished = combo_inventory.finished,
                              !.shipped = combo_inventory.shipped]]
  /\ comboTx' = Append(comboTx,
                   [combo_product_id |-> request.combo_product_id,
                    warehouse_id |-> request.warehouse_id,
                    transaction_type |-> "ship", quantity |-> request.quantity])
  /\ sessions' = [sessions EXCEPT ![c] = Answered(c, 200)]
  /\ UNCHANGED <<inv, orders, invTx, idSeq, products, combos, call, inventory_records>>

\* ship_products up to the source check of _transfer_inventory; scalar_one_or_none()
\* raises MultipleResultsFound when the pair has several rows
SelectShip(c, request) ==
  LET found == RowsOf(inventory_records, request.product_id, request.warehouse_id)
      i == CHOOSE x \in found : TRUE
  IN
  /\ MaySend(c)
  /\ sessions' = [sessions EXCEPT ![c] =
       IF found = {} THEN Answered(c, 400)
       ELSE IF Cardinality(found) > 1 THEN Answered(c, 500)
       ELSE IF inventory_records[i].finished < request.quantity THEN Answered(c, 400)
       ELSE Loaded(c, "ship_products", request, i, inventory_records[i])]
  /\ UNCHANGED <<inv, comboInv, orders, invTx, comboTx, idSeq, products, combos, call,
                 inventory_records>>

\* ship_products from the move on the loaded record to db.commit()
CommitShip(c) ==
  LET request == sessions[c].request
      i == sessions[c].loaded.index
      inventory == transfer_row(sessions[c].loaded.row, "finished", "shipped",
                                request.quantity)
  IN
  /\ sessions[c].pc = "loaded" /\ sessions[c].op = "ship_products"
  /\ inventory_records' = [inventory_records EXCEPT
                             ![i] = [@ EXCEPT !.finished = inventory.finished,
                                              !.shipped = inventory.shipped]]
  /\ invTx' = Append(invTx,
                 [product_id |-> request.product_id, warehouse_id |-> request.warehouse_id,
                  transaction_type |-> "ship", from_status |-> "finished",
                  to_status |-> "shipped", quantity |-> request.quantity,
                  reference_id |-> None])
  /\ sessions' = [sessions EXCEPT ![c] = Answered(c, 200)]
  /\ UNCHANGED <<inv, comboInv, orders, comboTx, idSeq, products, combos, call>>

\* create_purchase_order of a one-line order up to the SELECT of
\* _update_inventory_in_transit: the order and the item were flushed (their ids are
\* drawn from the sequences) and the record of the pair was looked up
SelectCreate(c, order_data) ==
  LET item_data == order_data.items[1]
      found == RowsOf(inventory_records, item_data.product_id, order_data.warehouse_id)
      i == CHOOSE x \in found : TRUE
  IN
  /\ MaySend(c)
  /\ idSeq.order <= MaxPairOrders
  /\ idSeq' = [order |-> idSeq.order + 1, item |-> idSeq.item + 1]
  /\ sessions' = [sessions EXCEPT ![c] =
       IF Cardinality(found) > 1 THEN Answered(c, 500)
       ELSE [Loaded(c, "create_purchase_order", order_data,
                    IF found = {} THEN 0 ELSE i,
                    IF found = {} THEN NoRow ELSE inventory_records[i])
               EXCEPT !.order_id = idSeq.order, !.item_id = idSeq.item]]
  /\ UNCHANGED <<inv, comboInv, orders, invTx, comboTx, products, combos, call,
                 inventory_records>>

\* create_purchase_order from the in-transit adjustment to db.commit(): a session
\* that found no record inserts one, a session that found one updates it
CommitCreate(c) ==
  LET order_data == sessions[c].request
      item_data == order_data.items[1]
      i == sessions[c].loaded.index
      db_item == [id |-> sessions[c].item_id, product_id |-> item_data.product_id,
                  quantity |-> item_data.quantity,
                  unit_price |-> numeric_10_2(item_data.unit_price),
                  subtotal |-> numeric_10_2(item_data.quantity * item_data.unit_price),
                  received_quantity |-> 0]
  IN
  /\ sessions[c].pc = "loaded" /\ sessions[c].op = "create_purchase_order"
  /\ orders' = [orders EXCEPT ![sessions[c].order_id] =
                  [exists |-> TRUE, warehouse_id |-> order_data.warehouse_id,
                   status |-> PENDING,
                   total_amount |-> numeric_10_2(total_amount(order_data.items)),
                   items |-> <<db_item>>]]
  /\ inventory_records' =
       IF i = 0
         THEN Append(inventory_records,
                     [NoRow EXCEPT !.product_id = item_data.product_id,
                                   !.warehouse_id = order_data.warehouse_id,
                                   !.in_transit = Max(0, item_data.quantity)])
         ELSE [inventory_records EXCEPT
                 ![i].in_transit = Max(0, sessions[c].loaded.row.in_transit
                                            + item_data.quantity)]
  /\ invTx' = Append(invTx,
                 [product_id |-> item_data.product_id,
                  warehouse_id |-> order_data.warehouse_id,
                  transaction_type |-> "purchase", from_status |-> None,
                  to_status |-> "in_transit", quantity |-> item_data.quantity,
                  reference_id |-> sessions[c].order_id])
  /\ sessions' = [sessions EXCEPT ![c] = Answered(c, 200)]
  /\ UNCHANGED <<inv, comboInv, comboTx, idSeq, products, combos, call>>

NextConcurrent ==
  \E c \in Clients :
    \/ \E request \in ConcurrentShipCombo : SelectShipCombo(c, request)
    \/ CommitShipCombo(c)
    \/ \E request \in ConcurrentShip : SelectShip(c, request)
    \/ CommitShip(c)
    \/ \E order_data \in ConcurrentCreate : SelectCreate(c, order_data)
    \/ CommitCreate(c)

SpecConcurrent == InitConcurrent /\ [][NextConcurrent]_vars

(* ======================================================================= *)
(*                              properties                                 *)
(* ======================================================================= *)
database == <<inv, comboInv, orders, invTx, comboTx>>
CommittedCall(c, op) == c.op = op /\ c.code = 200
FailedCall(c, op) == c.op = op /\ c.code # 200

ReceivedFor(lines, item_id) ==
  SumSeq([i \in 1..Len(lines) |->
            IF lines[i].item_id = item_id THEN lines[i].received_quantity ELSE 0], 1)

\* C2: received_quantity <= quantity for every item after any sequence of receive calls
\* (also with one item on several lines): a committed receive adds exactly the
\* delivered quantities and stays within the ordered quantity, and a rejected
\* receive leaves received quantities, counters, status and log unchanged.
ReceiptCap ==
  [][ /\ \A o \in 1..MaxOrders : \A k \in 1..Len(orders'[o].items) :
           orders'[o].items[k].received_quantity <= orders'[o].items[k].quantity
      /\ CommittedCall(call', "receive_order") =>
           LET o == call'.request.order_id IN
           \A k \in 1..Len(orders[o].items) :
              /\ orders'[o].items[k].received_quantity =
                   orders[o].items[k].received_quantity
                   + ReceivedFor(call'.request.items, orders[o].items[k].id)
              /\ orders[o].items[k].received_quantity
                   + ReceivedFor(call'.request.items, orders[o].items[k].id)
                 <= orders[o].items[k].quantity
      /\ FailedCall(call', "receive_order") => UNCHANGED database
    ]_vars

\* an over-receipt was just refused: the order is partly received, its stock record
\* is in place, and the receive call came back with 400
ReceiptCapWitness ==
  /\ FailedCall(call, "receive_order") /\ call.code = 400
  /\ \E o \in 1..MaxOrders :
       /\ orders[o].exists /\ orders[o].status = PARTIAL
       /\ \A k \in 1..Len(orders[o].items) :
            inv[orders[o].items[k].product_id, orders[o].warehouse_id].exists
       /\ \E k \in 1..Len(orders[o].items) :
            orders[o].items[k].received_quantity = orders[o].items[k].quantity

(* ---------- C3 ---------- *)
StatusMoves ==
  { <<PENDING, PARTIAL>>, <<PENDING, COMPLETED>>, <<PARTIAL, COMPLETED>>,
    <<PENDING, CANCELLED>> }

\* C3: across create, update, receive and delete the status of an order only moves
\* pending -> partial -> completed or pending -> cancelled; it never regresses and
\* never leaves cancelled.
StatusMonotonic ==
  [][ \A o \in 1..MaxOrders :
        (orders[o].exists /\ orders'[o].exists) =>
          \/ orders'[o].status = orders[o].status
          \/ <<orders[o].status, orders'[o].status>> \in StatusMoves
    ]_vars

(* ---------- C4 ---------- *)
Sum4(row) == row.in_transit + row.semi_finished + row.finished + row.shipped

\* one ledger transfer moved exactly its quantity from the source to the destination
TransferConserves(t) ==
  /\ t.before.exists /\ t.after.exists
  /\ t.after[t.from_status] = t.before[t.from_status] - t.quantity
  /\ t.after[t.to_status] = t.before[t.to_status] + t.quantity
  /\ \A f \in InvFields \ {t.from_status, t.to_status} : t.after[f] = t.before[f]
  /\ Sum4(t.after) = Sum4(t.before)

\* transfer i of the call read the record as the database (or the previous transfer
\* of the call on that record) left it, and the last one is what the call committed
TransferLinked(ts, i, pre, post) ==
  LET key == <<ts[i].product_id, ts[i].warehouse_id>>
      earlier == {j \in 1..(i - 1) : <<ts[j].product_id, ts[j].warehouse_id>> = key}
      later == {j \in (i + 1)..Len(ts) : <<ts[j].product_id, ts[j].warehouse_id>> = key}
      last == CHOOSE j \in earlier : \A x \in earlier : x <= j
  IN /\ ts[i].before = IF earlier = {} THEN pre[key] ELSE ts[last].after
     /\ later = {} => ts[i].after = post[key]

\* the transfers a committed call must have made
ExpectedTransfers(c) ==
  IF c.op = "receive_order"
    THEN [i \in 1..Len(c.request.items) |->
            [from_status |-> "in_transit", to_status |-> "semi_finished",
             quantity |-> c.request.items[i].received_quantity]]
  ELSE IF c.op = "package_products"
    THEN <<[from_status |-> "semi_finished", to_status |-> "finished",
            quantity |-> c.request.quantity]>>
  ELSE <<[from_status |-> "finished", to_status |-> "shipped",
          quantity |-> c.request.quantity]>>

\* C4: every successful transfer of receive (in_transit -> semi_finished), pack
\* (semi_finished -> finished) and ship (finished -> shipped) takes exactly q from the
\* source counter, adds exactly q to the destination counter and keeps the sum of
\* the four counters of the record.
Conservation ==
  [][ (call'.code = 200
       /\ call'.op \in {"receive_order", "package_products", "ship_products"}) =>
        LET ts == call'.transfers
            ex == ExpectedTransfers(call')
        IN /\ Len(ts) = Len(ex)
           /\ \A i \in 1..Len(ts) :
                /\ ts[i].from_status = ex[i].from_status
                /\ ts[i].to_status = ex[i].to_status
                /\ ts[i].quantity = ex[i].quantity
                /\ TransferConserves(ts[i])
                /\ TransferLinked(ts, i, inv, inv')
    ]_vars

\* stock went through all three transfers: something was received, packed and shipped
ConservationWitness ==
  /\ CommittedCall(call, "ship_products")
  /\ \E k \in Products \X Warehouses :
       inv[k].shipped >= 1 /\ inv[k].in_transit + inv[k].semi_finished >= 1

(* ---------- C5 ---------- *)
\* the stock of a product in a warehouse; a product without a record has none
SemiFinished(inventory, p, w) ==
  IF inventory[p, w].exists THEN inventory[p, w].semi_finished ELSE 0

\* every constraint on the number of combos the stock of warehouse w supports
Constraints(combo, w, inventory) ==
  LET items == combo.combo_items
      rels == combo.packaging_relations
  IN    { FloorDiv(SemiFinished(inventory, items[i].base_product_id, w), items[i].quantity) :
            i \in 1..Len(items) }
   \cup UNION { { FloorDiv(FloorDiv(SemiFinished(inventory,
                                      items[i].packaging_relations[j].packaging_id, w),
                                    items[i].packaging_relations[j].quantity),
                           items[i].quantity) :
                    j \in 1..Len(items[i].packaging_relations) } :
                i \in 1..Len(items) }
   \cup { FloorDiv(SemiFinished(inventory, rels[j].packaging_id, w), rels[j].quantity) :
            j \in 1..Len(rels) }

MinOf(S) == CHOOSE x \in S : \A y \in S : x <= y

ExpectedAvailable(combo, w, inventory) ==
  IF combo.combo_items = <<>> THEN 0 ELSE MinOf(Constraints(combo, w, inventory))

\* C5: available_to_assemble(combo, warehouse) is the minimum over all constraints of
\* floor(semi_finished(base_i) / q_i), floor(floor(semi_finished(pk) / p) / q_i) and
\* floor(semi_finished(cpk) / r), and 0 for a combo without items.
AvailabilityIsMinimum ==
  call.op = "get_combo_inventory_summary" =>
    \A c \in DOMAIN call.body.summary :
      call.body.summary[c].available_to_assemble =
        ExpectedAvailable(combos[c], call.request.warehouse_id, inv)

\* 2 x A with 4 of A in stock and combo packaging P, 1 per combo, 3 or more in stock:
\* the summary reports min(4 \div 2, P \div 1) = 2
AvailabilityIsMinimumWitness ==
  /\ call.op = "get_combo_inventory_summary"
  /\ "C" \in DOMAIN call.body.summary
  /\ combos["C"] = ComboTwoAOneP
  /\ inv["A", "W1"].semi_finished = 4 /\ inv["P", "W1"].semi_finished >= 3
  /\ call.body.summary["C"].available_to_assemble = 2

(* ---------- C6 ---------- *)
\* what one combo item takes of product p: the base product and its packaging
ItemNeed(item, p) ==
  (IF item.base_product_id = p THEN item.quantity ELSE 0)
  + SumSeq([j \in 1..Len(item.packaging_relations) |->
              IF item.packaging_relations[j].packaging_id = p
                THEN item.packaging_relations[j].quantity * item.quantity ELSE 0], 1)

\* what one combo takes of product p, over all its items and its own packaging
Required(combo, p) ==
  SumSeq([i \in 1..Len(combo.combo_items) |-> ItemNeed(combo.combo_items[i], p)], 1)
  + SumSeq([j \in 1..Len(combo.packaging_relations) |->
              IF combo.packaging_relations[j].packaging_id = p
                THEN combo.packaging_relations[j].quantity ELSE 0], 1)

\* C6: a successful assemble_combo(combo, warehouse, n) takes item.quantity * n of each
\* base product, relation.quantity * item.quantity * n of each combo-item packaging
\* and relation.quantity * n of each combo-level packaging from semi_finished, adds n
\* to the combo's finished counter (on a new 0/0 record if there was none), changes
\* no other counter and appends exactly one assemble row of quantity n.
AssembleEffect ==
  [][ CommittedCall(call', "assemble_combo_product") =>
        LET n == call'.request.quantity
            w == call'.request.warehouse_id
            c == call'.request.combo_product_id
            old == IF comboInv[c, w].exists THEN comboInv[c, w]
                   ELSE [exists |-> TRUE, finished |-> 0, shipped |-> 0]
        IN /\ \A p \in Products :
                inv'[p, w] = [inv[p, w] EXCEPT
                                !.semi_finished = @ - Required(combos[c], p) * n]
           /\ \A k \in Products \X (Warehouses \ {w}) : inv'[k] = inv[k]
           /\ comboInv'[c, w] = [old EXCEPT !.finished = @ + n]
           /\ \A k \in (ComboIds \X Warehouses) \ {<<c, w>>} : comboInv'[k] = comboInv[k]
           /\ comboTx' = Append(comboTx,
                [combo_product_id |-> c, warehouse_id |-> w,
                 transaction_type |-> "assemble", quantity |-> n])
    ]_vars

\* one combo of A (wrapped in 2 x P), 2 x B and a P was assembled: 3 x P went
AssembleEffectWitness ==
  /\ CommittedCall(call, "assemble_combo_product")
  /\ call.request.quantity = 1
  /\ combos["C"] = ComboAB
  /\ Len(comboTx) = 1
  /\ comboInv["C", "W1"].finished = 1

(* ---------- C7 ---------- *)
\* C7: assemble_combo is rejected whenever the quantity is greater than the
\* available_to_assemble computed at the start of the call, and a rejected call
\* leaves every InventoryRecord, the ComboInventoryRecord and both logs unchanged.
AssembleRejectsOverAvailable ==
  [][ /\ CommittedCall(call', "assemble_combo_product") =>
           call'.request.quantity <=
             calculate_available_to_assemble(combos[call'.request.combo_product_id],
                                             call'.request.warehouse_id, inv)
      /\ FailedCall(call', "assemble_combo_product") => UNCHANGED database
    ]_vars

\* an assemble was refused by the availability check while stock was there
AssembleRejectsOverAvailableWitness ==
  /\ FailedCall(call, "assemble_combo_product") /\ call.code = 400
  /\ \E p \in Products : inv[p, "W1"].semi_finished >= 1
  /\ calculate_available_to_assemble(combos["C"], "W1", inv) >= 1

(* ---------- C8 ---------- *)
Dependencies(combo) ==
     { combo.combo_items[i].base_product_id : i \in 1..Len(combo.combo_items) }
  \cup UNION { { combo.combo_items[i].packaging_relations[j].packaging_id :
                   j \in 1..Len(combo.combo_items[i].packaging_relations) } :
               i \in 1..Len(combo.combo_items) }
  \cup { combo.packaging_relations[j].packaging_id :
           j \in 1..Len(combo.packaging_relations) }

\* C8: assemble_combo is atomic: when a deduction of the pass finds a missing record
\* or a shortfall after earlier deductions of the call (one packaging needed by a
\* combo item and by the combo itself), the call fails and none of its deductions,
\* the finished increment or the transaction row is committed.
AssembleAtomic ==
  [][ /\ CommittedCall(call', "assemble_combo_product") =>
           LET n == call'.request.quantity
               w == call'.request.warehouse_id
               combo == combos[call'.request.combo_product_id]
           IN \A p \in Dependencies(combo) :
                /\ inv[p, w].exists
                /\ Required(combo, p) * n <= inv[p, w].semi_finished
      /\ (call'.op = "assemble_combo_product" /\ call'.code = 500) => UNCHANGED database
    ]_vars

\* the availability check passed on independent minima, the pass ran short of the
\* shared packaging and the call failed
AssembleAtomicWitness ==
  /\ call.op = "assemble_combo_product" /\ call.code = 500
  /\ combos["C"] = ComboSharedP
  /\ calculate_available_to_assemble(combos["C"], "W1", inv) >= 1
  /\ inv["A", "W1"].semi_finished >= 1 /\ inv["P", "W1"].semi_finished = 1

(* ---------- C9 ---------- *)
MissingDependency(combo, w, inventory) ==
  \E p \in Dependencies(combo) : ~inventory[p, w].exists

MissingGivesZero(inventory) ==
  \A c \in ComboIds, w \in Warehouses :
    MissingDependency(combos[c], w, inventory) =>
      calculate_available_to_assemble(combos[c], w, inventory) = 0

\* C9: when a dependency of a combo (base product, combo-item packaging or
\* combo-level packaging) has no InventoryRecord in the warehouse,
\* available_to_assemble is 0 whatever the stock of the others, and every
\* assemble_combo of quantity >= 1 for that combo and warehouse is rejected.
MissingDependencyZero ==
  [][ /\ MissingGivesZero(inv) /\ MissingGivesZero(inv')
      /\ (CommittedCall(call', "assemble_combo_product") /\ call'.request.quantity >= 1) =>
           ~MissingDependency(combos[call'.request.combo_product_id],
                              call'.request.warehouse_id, inv)
    ]_vars

\* A is amply in stock, the combo packaging P has no record, and an assemble was refused
MissingDependencyZeroWitness ==
  /\ FailedCall(call, "assemble_combo_product") /\ call.code = 400
  /\ combos["C"] = ComboTwoAOneP
  /\ inv["A", "W1"].semi_finished = MaxStock
  /\ ~inv["P", "W1"].exists

(* ---------- C10 ---------- *)
\* C10: ship_combo(combo, warehouse, q) is rejected when the combo's finished counter
\* is less than q or when the pair has no ComboInventoryRecord, and the rejected call
\* leaves finished, shipped and the ComboInventoryTransaction log unchanged.
ShipComboRejects ==
  [][ /\ CommittedCall(call', "ship_combo_product") =>
           LET k == <<call'.request.combo_product_id, call'.request.warehouse_id>>
           IN comboInv[k].exists /\ comboInv[k].finished >= call'.request.quantity
      /\ FailedCall(call', "ship_combo_product") => UNCHANGED <<comboInv, comboTx>>
    ]_vars

\* a combo is in stock and a ship_combo asking for more was refused
ShipComboRejectsWitness ==
  /\ FailedCall(call, "ship_combo_product") /\ call.code = 400
  /\ comboInv["C", "W1"].exists /\ comboInv["C", "W1"].finished >= 1

(* ---------- C11 ---------- *)
ZeroCounters == [in_transit |-> 0, semi_finished |-> 0, finished |-> 0, shipped |-> 0]

\* the delta one InventoryTransaction row records: a move from one status to
\* another, an addition to to_status, or a signed (negative) change of from_status
ApplyRow(c, row) ==
  IF row.from_status # None /\ row.to_status # None
    THEN [[c EXCEPT ![row.from_status] = @ - row.quantity]
             EXCEPT ![row.to_status] = @ + row.quantity]
  ELSE IF row.to_status # None THEN [c EXCEPT ![row.to_status] = @ + row.quantity]
  ELSE IF row.from_status # None THEN [c EXCEPT ![row.from_status] = @ + row.quantity]
  ELSE c

RECURSIVE ReplayInventory(_, _, _)
ReplayInventory(log, i, acc) ==
  IF i > Len(log) THEN acc
  ELSE ReplayInventory(log, i + 1,
         [acc EXCEPT ![log[i].product_id, log[i].warehouse_id] = ApplyRow(@, log[i])])

\* the delta one ComboInventoryTransaction row records
ApplyComboRow(c, row) ==
  IF row.transaction_type = "assemble" THEN [c EXCEPT !.finished = @ + row.quantity]
  ELSE [c EXCEPT !.finished = @ - row.quantity, !.shipped = @ + row.quantity]

RECURSIVE ReplayCombo(_, _, _)
ReplayCombo(log, i, acc) ==
  IF i > Len(log) THEN acc
  ELSE ReplayCombo(log, i + 1,
         [acc EXCEPT ![log[i].combo_product_id, log[i].warehouse_id] =
                       ApplyComboRow(@, log[i])])

ComboLogReplays ==
  LET replayed == ReplayCombo(comboTx, 1,
                    [k \in ComboIds \X Warehouses |-> [finished |-> 0, shipped |-> 0]])
  IN \A k \in ComboIds \X Warehouses :
       replayed[k] = [finished |-> comboInv[k].finished, shipped |-> comboInv[k].shipped]

InventoryLogReplays ==
  LET replayed == ReplayInventory(invTx, 1, [k \in Products \X Warehouses |-> ZeroCounters])
  IN \A k \in Products \X Warehouses :
       replayed[k] = [f \in InvFields |-> inv[k][f]]

DeliveredOf(db_order, lines, p) ==
  SumSeq([k \in 1..Len(db_order.items) |->
            IF db_order.items[k].product_id = p
              THEN ReceivedFor(lines, db_order.items[k].id) ELSE 0], 1)

\* no line of the request fails: every item_id is an item of the order, no item is
\* over-received, and the record of every delivered product exists in the order's
\* warehouse and holds the delivered quantity in transit
LinesValid(db_order, lines) ==
  /\ \A i \in 1..Len(lines) :
       \E k \in 1..Len(db_order.items) : db_order.items[k].id = lines[i].item_id
  /\ \A k \in 1..Len(db_order.items) :
       db_order.items[k].received_quantity + ReceivedFor(lines, db_order.items[k].id)
         <= db_order.items[k].quantity
  /\ \A k \in 1..Len(db_order.items) :
       (\E i \in 1..Len(lines) : lines[i].item_id = db_order.items[k].id) =>
         LET p == db_order.items[k].product_id
             record == inv[p, db_order.warehouse_id]
         IN record.exists /\ record.in_transit >= DeliveredOf(db_order, lines, p)

\* C12: receive is all-or-nothing: when a line of a receive call fails (unknown
\* item_id, over-receipt, missing inventory record, insufficient in_transit) no
\* effect of the call is committed, the received quantities, transfers and arrival
\* rows of lines processed earlier in the call and the order status included.
ReceiveAllOrNothing ==
  [][ /\ FailedCall(call', "receive_order") => UNCHANGED database
      /\ CommittedCall(call', "receive_order") =>
           LinesValid(orders[call'.request.order_id], call'.request.items)
    ]_vars

\* a receive call failed on a later line after the session had already applied the
\* transfer of an earlier line
ReceiveAllOrNothingWitness ==
  FailedCall(call, "receive_order") /\ call.applied >= 1

(* ---------- C13 ---------- *)
AllReceived(db_order) ==
  \A k \in 1..Len(db_order.items) :
     db_order.items[k].received_quantity = db_order.items[k].quantity
AnyReceived(db_order) ==
  \E k \in 1..Len(db_order.items) : db_order.items[k].received_quantity > 0

\* C13: in every reachable state, for every existing purchase order that is not
\* cancelled, status is completed iff every item is fully received, partial iff not
\* all items are fully received and some item has received_quantity > 0, and
\* pending otherwise.
StatusMatchesReceipts ==
  \A o \in OrderIds :
    (orders[o].exists /\ orders[o].status # CANCELLED) =>
      orders[o].status =
        IF AllReceived(orders[o]) THEN COMPLETED
        ELSE IF AnyReceived(orders[o]) THEN PARTIAL
        ELSE PENDING

(* ---------- C14 ---------- *)
OrderCalls == {"receive_order", "update_purchase_order", "delete_purchase_order"}

\* C14: completed is terminal: once the status of a purchase order is completed,
\* every later receive, update and delete call on it is rejected, and its status,
\* the received quantities of its items and its existence never change again.
CompletedIsTerminal ==
  [][ /\ \A o \in OrderIds :
           (orders[o].exists /\ orders[o].status = COMPLETED) => orders'[o] = orders[o]
      /\ (call'.op \in OrderCalls /\ call'.code = 200) =>
           orders[call'.request.order_id].status # COMPLETED
    ]_vars

\* an order was received in full and a later call on an order was refused with 400
CompletedIsTerminalWitness ==
  /\ call.op \in OrderCalls /\ call.code = 400
  /\ \E o \in OrderIds :
       orders[o].exists /\ orders[o].status = COMPLETED /\ AllReceived(orders[o])

(* ---------- C15 ---------- *)
\* the quantity an order holds of product p, over all its items
OrderedOf(db_order, p) ==
  SumSeq([k \in 1..Len(db_order.items) |->
            IF db_order.items[k].product_id = p THEN db_order.items[k].quantity ELSE 0], 1)

\* one cancel-purchase row per item of the order
CancelRows(db_order, order_id) ==
  [k \in 1..Len(db_order.items) |->
     [product_id |-> db_order.items[k].product_id, warehouse_id |-> db_order.warehouse_id,
      transaction_type |-> "cancel_purchase", from_status |-> "in_transit",
      to_status |-> None, quantity |-> -db_order.items[k].quantity,
      reference_id |-> order_id]]

\* C15: delete_purchase_order on a pending order succeeds; afterwards the order and
\* its items no longer exist, in_transit of each item's (product, order warehouse)
\* record is max(0, previous - item.quantity), and one cancel-purchase row of
\* quantity -item.quantity referring to the order was appended per item.
DeletePendingSucceeds ==
  [][ LET o == call'.request.order_id
          db_order == orders[o]
      IN (call'.op = "delete_purchase_order" /\ db_order.exists
          /\ db_order.status = PENDING) =>
           /\ call'.code = 200
           /\ ~orders'[o].exists
           /\ \A p \in Products :
                OrderedOf(db_order, p) > 0 =>
                  inv'[p, db_order.warehouse_id].in_transit =
                    Max(0, inv[p, db_order.warehouse_id].in_transit - OrderedOf(db_order, p))
           /\ invTx' = invTx \o CancelRows(db_order, o)
    ]_vars

(* ---------- C16 ---------- *)
\* C16: update_purchase_order and delete_purchase_order are rejected for every order
\* that is not pending (partial, completed or cancelled), receive_order is rejected
\* for a completed order, and each rejected call leaves the order, its items, every
\* inventory counter and the transaction log unchanged.
NonPendingRejected ==
  [][ /\ (CommittedCall(call', "update_purchase_order")
            \/ CommittedCall(call', "delete_purchase_order")) =>
           orders[call'.request.order_id].status = PENDING
      /\ (call'.op = "delete_purchase_order"
          /\ orders[call'.request.order_id].exists
          /\ orders[call'.request.order_id].status # PENDING) => call'.code = 400
      /\ CommittedCall(call', "receive_order") =>
           orders[call'.request.order_id].status # COMPLETED
      /\ (call'.op \in OrderCalls /\ call'.code = 400) => UNCHANGED database
    ]_vars

\* an update was refused with 400 on the one order there is, partial or cancelled,
\* after stock had moved for it
NonPendingRejectedWitness ==
  /\ call.op = "update_purchase_order" /\ call.code = 400
  /\ orders[1].exists /\ orders[1].status \in {PARTIAL, CANCELLED}
  /\ Len(invTx) >= 1

(* ---------- C17 ---------- *)
\* the purchase rows of a create request, one per item
PurchaseRows(order_data, order_id) ==
  [k \in 1..Len(order_data.items) |->
     [product_id |-> order_data.items[k].product_id,
      warehouse_id |-> order_data.warehouse_id,
      transaction_type |-> "purchase", from_status |-> None,
      to_status |-> "in_transit", quantity |-> order_data.items[k].quantity,
      reference_id |-> order_id]]

\* the order of the request is stored pending, with one unreceived item per line
CreatePersistsOrder(order_data, order_id) ==
  /\ ~orders[order_id].exists /\ orders'[order_id].exists
  /\ orders'[order_id].status = PENDING
  /\ orders'[order_id].warehouse_id = order_data.warehouse_id
  /\ Len(orders'[order_id].items) = Len(order_data.items)
  /\ \A k \in 1..Len(order_data.items) :
       /\ orders'[order_id].items[k].product_id = order_data.items[k].product_id
       /\ orders'[order_id].items[k].quantity = order_data.items[k].quantity
       /\ orders'[order_id].items[k].received_quantity = 0

\* in_transit of every record grows by what the request orders of it, a record
\* that did not exist starts with the other counters at 0, and one purchase row
\* per item is appended
CreateMovesStock(order_data, order_id) ==
  /\ \A p \in Products, w \in Warehouses :
       IF w = order_data.warehouse_id /\ OrderedOf(order_data, p) > 0
         THEN inv'[p, w] =
                [exists |-> TRUE,
                 in_transit |-> inv[p, w].in_transit + OrderedOf(order_data, p),
                 semi_finished |-> inv[p, w].semi_finished,
                 finished |-> inv[p, w].finished, shipped |-> inv[p, w].shipped]
         ELSE inv'[p, w] = inv[p, w]
  /\ invTx' = invTx \o PurchaseRows(order_data, order_id)
  /\ UNCHANGED <<comboInv, comboTx>>

\* C17: create_purchase_order persists the order in status pending with total_amount
\* equal to the sum of quantity * unit_price over its items, and for each item
\* increases in_transit of the (product, order warehouse) record by exactly the
\* item's quantity (creating the record with all other counters 0 when none exists,
\* also when the same product appears in several items) and appends exactly one
\* purchase row with to_status in_transit and that quantity.
CreateEffect ==
  [][ CommittedCall(call', "create_purchase_order") =>
        /\ CreatePersistsOrder(call'.request, call'.body.id)
        /\ orders'[call'.body.id].total_amount = total_amount(call'.request.items)
        /\ CreateMovesStock(call'.request, call'.body.id)
    ]_vars

(* ---------- C18 ---------- *)
ComboCalls == {"assemble_combo_product", "ship_combo_product"}

\* C18: InvalidQuantity: assemble_combo and ship_combo reject a request whose
\* quantity is zero or negative at the boundary, leaving all counters and logs
\* unchanged: no such call commits, and no refused call changes the database.
InvalidQuantityRejected ==
  [][ /\ (call'.op \in ComboCalls /\ call'.code = 200) => call'.request.quantity >= 1
      /\ (call'.op \in ComboCalls /\ call'.code # 200) => UNCHANGED database
    ]_vars

PackagingBill(product, quantity) ==
  IF product.sale_type # "product" THEN <<>>
  ELSE IF product.packaging_relations # <<>>
    THEN [k \in 1..Len(product.packaging_relations) |->
            [packaging_id |-> product.packaging_relations[k].packaging_id,
             quantity |-> product.packaging_relations[k].quantity * quantity]]
  ELSE IF product.packaging_id # None
    THEN <<[packaging_id |-> product.packaging_id, quantity |-> quantity]>>
  ELSE <<>>

BillOf(bill, p) ==
  SumSeq([k \in 1..Len(bill) |-> IF bill[k].packaging_id = p THEN bill[k].quantity ELSE 0], 1)

ConsumptionRows(bill, warehouse_id) ==
  [k \in 1..Len(bill) |->
     [product_id |-> bill[k].packaging_id, warehouse_id |-> warehouse_id,
      transaction_type |-> "packaging_consumption", from_status |-> "semi_finished",
      to_status |-> None, quantity |-> -bill[k].quantity, reference_id |-> None]]

PackRow(request) ==
  [product_id |-> request.product_id, warehouse_id |-> request.warehouse_id,
   transaction_type |-> "pack", from_status |-> "semi_finished",
   to_status |-> "finished", quantity |-> request.quantity, reference_id |-> None]

\* C20: a successful pack(product, warehouse, q) moves exactly q units of the product
\* from semi_finished to finished and, for a product of type product, consumes
\* relation.quantity * q semi_finished units of each ProductPackagingRelation
\* packaging or, only when there is no relation but a legacy packaging_id, q units
\* of that packaging; it appends one packaging-consumption row of negative quantity
\* per packaging consumed and one pack row, and changes no other counter.
PackEffect ==
  [][ CommittedCall(call', "package_products") =>
        LET request == call'.request
            bill == PackagingBill(products[request.product_id], request.quantity)
        IN
        /\ \A p \in Products, w \in Warehouses :
             LET moved == IF p = request.product_id /\ w = request.warehouse_id
                            THEN request.quantity ELSE 0
                 used == IF w = request.warehouse_id THEN BillOf(bill, p) ELSE 0
             IN inv'[p, w] = [inv[p, w] EXCEPT
                                !.semi_finished = @ - moved - used,
                                !.finished = @ + moved]
        /\ invTx' = (invTx \o ConsumptionRows(bill, request.warehouse_id))
                      \o <<PackRow(request)>>
        /\ UNCHANGED <<comboInv, comboTx, orders>>
    ]_vars

\* a pack committed for a product whose relation takes two packaging units each and
\* which also names a legacy packaging
PackEffectWitness ==
  /\ CommittedCall(call, "package_products")
  /\ products[call.request.product_id].packaging_id # None
  /\ products[call.request.product_id].packaging_relations # <<>>
  /\ products[call.request.product_id].packaging_relations[1].quantity = 2

(* ---------- C23 ---------- *)
IsPrefix(s, t) == Len(s) <= Len(t) /\ SubSeq(t, 1, Len(s)) = s

ShipComboEffect ==
  [][ CommittedCall(call', "ship_combo_product") =>
        LET request == call'.request
            key == <<request.combo_product_id, request.warehouse_id>>
        IN
        /\ comboInv'[key].exists /\ comboInv[key].exists
        /\ comboInv'[key].finished = comboInv[key].finished - request.quantity
        /\ comboInv'[key].shipped = comboInv[key].shipped + request.quantity
        /\ comboInv'[key].finished + comboInv'[key].shipped
             = comboInv[key].finished + comboInv[key].shipped
        /\ \A k \in DOMAIN comboInv : k # key => comboInv'[k] = comboInv[k]
        /\ comboTx' = Append(comboTx,
                             [combo_product_id |-> request.combo_product_id,
                              warehouse_id |-> request.warehouse_id,
                              transaction_type |-> "ship", quantity |-> request.quantity])
        /\ UNCHANGED <<inv, invTx, orders>>
    ]_vars

\* a shipment of at least one assembled unit committed
ShipComboEffectWitness ==
  /\ CommittedCall(call, "ship_combo_product")
  /\ call.request.quantity >= 1
  /\ comboInv[call.request.combo_product_id, call.request.warehouse_id].shipped >= 1
  /\ \E i \in 1..Len(comboTx) : comboTx[i].transaction_type = "assemble"

(* ---------- C26 ---------- *)
\* the moves the handlers ask of the transfer
TransferMoves ==
  { <<"in_transit", "semi_finished">>, <<"semi_finished", "finished">>,
    <<"finished", "shipped">> }

TransferFails(p, w, from_status, quantity) ==
  ~inv[p, w].exists \/ inv[p, w][from_status] < quantity

\* C26: transfer fails without mutating any counter when no InventoryRecord exists
\* for the (product, warehouse) pair or when the source counter is less than the
\* requested quantity: the check precedes the decrement and the increment, so a
\* failed transfer leaves the session as it found it. This holds of both copies of
\* the function, in every reachable state and for every move and quantity.
TransferFailsClean ==
  \A p \in Products, w \in Warehouses, m \in TransferMoves, quantity \in 1..MaxQty :
    LET t1 == _transfer_inventory(Database, p, w, m[1], m[2], quantity)
        t2 == inventory_transfer_inventory(Database, p, w, m[1], m[2], quantity)
    IN IF TransferFails(p, w, m[1], quantity)
         THEN ~t1.ok /\ t1.S = Database /\ ~t2.ok /\ t2.S = Database
         ELSE t1.ok /\ t2.ok

\* a shipment was refused: the record of A holds received units but nothing finished
TransferFailsCleanWitness ==
  /\ call.op = "ship_products" /\ call.code = 400
  /\ inv["A", "W1"].exists /\ inv["A", "W1"].semi_finished >= 1
  /\ inv["A", "W1"].finished = 0

(* ---------- C25 ---------- *)
\* C25: pack is all-or-nothing: if the call fails for any reason (a packaging record
\* is missing or short, or the product's own record is missing or short, which is
\* found only after the packaging deductions were applied in the session), then no
\* packaging deduction, no product transfer and no transaction row of that call is
\* committed.
PackAllOrNothing ==
  [][ FailedCall(call', "package_products") => UNCHANGED database ]_vars

\* a pack failed after its session had deducted packaging and logged the consumption
PackAllOrNothingWitness ==
  FailedCall(call, "package_products") /\ call.logged >= 1

(* ---------- C27 ---------- *)
\* what order o still awaits of product p
OutstandingOf(db_order, p) ==
  SumSeq([k \in 1..Len(db_order.items) |->
            IF db_order.items[k].product_id = p
              THEN db_order.items[k].quantity - db_order.items[k].received_quantity
              ELSE 0], 1)

\* what the existing orders for warehouse w still await of product p
RECURSIVE Outstanding(_, _, _)
Outstanding(p, w, o) ==
  IF o > MaxPairOrders THEN 0
  ELSE (IF orders[o].exists /\ orders[o].warehouse_id = w
          THEN OutstandingOf(orders[o], p) ELSE 0)
       + Outstanding(p, w, o + 1)

\* C27: in-transit accounting: in every state reachable by create, update, receive
\* and delete of purchase orders, for every (product p, warehouse w) the in_transit
\* counter equals the sum of quantity - received_quantity over all items for p of
\* the existing purchase orders whose warehouse_id is w.
InTransitAccounting ==
  \A p \in Products, w \in Warehouses : inv[p, w].in_transit = Outstanding(p, w, 1)

(* ---------- C28 ---------- *)
\* C28: availability is achievable: whenever 1 <= n <= available_to_assemble(combo,
\* warehouse) in the current state, assemble_combo(combo, warehouse, n) made next
\* succeeds, for every bill of materials, including ones where the same packaging or
\* product is required by several combo items or by a combo item and the combo.
AvailabilityAchievable ==
  \A c \in ComboIds, w \in StockWarehouses, n \in 1..MaxQty :
    (combos[c].exists /\ n <= calculate_available_to_assemble(combos[c], w, inv)) =>
      assemble_combo_product(Database, combos[c],
        [combo_product_id |-> c, warehouse_id |-> w, quantity |-> n]).committed

(* ---------- C29 ---------- *)
\* the number of constraints of the combo that refer to product p
References(combo, p) ==
  SumSeq([i \in 1..Len(combo.combo_items) |->
            (IF combo.combo_items[i].base_product_id = p THEN 1 ELSE 0)
            + SumSeq([j \in 1..Len(combo.combo_items[i].packaging_relations) |->
                        IF combo.combo_items[i].packaging_relations[j].packaging_id = p
                          THEN 1 ELSE 0], 1)], 1)
  + SumSeq([j \in 1..Len(combo.packaging_relations) |->
              IF combo.packaging_relations[j].packaging_id = p THEN 1 ELSE 0], 1)

SingleReference(combo) == \A p \in Dependencies(combo) : References(combo, p) = 1

ReceivedInto(p, w) ==
  SumSeq([i \in 1..Len(invTx) |->
            IF /\ invTx[i].transaction_type = "arrival"
               /\ invTx[i].product_id = p /\ invTx[i].warehouse_id = w
              THEN invTx[i].quantity ELSE 0], 1)

\* the units of (p, w) the packs of the log consumed as packaging
PackConsumed(p, w) ==
  SumSeq([i \in 1..Len(invTx) |->
            IF /\ invTx[i].transaction_type = "packaging_consumption"
               /\ invTx[i].product_id = p /\ invTx[i].warehouse_id = w
              THEN -invTx[i].quantity ELSE 0], 1)

\* the units of (p, w) the assemblies of the combo log consumed
AssembleConsumed(p, w) ==
  SumSeq([i \in 1..Len(comboTx) |->
            IF comboTx[i].transaction_type = "assemble" /\ comboTx[i].warehouse_id = w
              THEN comboTx[i].quantity * Required(combos[comboTx[i].combo_product_id], p)
              ELSE 0], 1)

LoggedUnits(log, type, IsOf(_)) ==
  SumSeq([i \in 1..Len(log) |->
            IF log[i].transaction_type = type /\ IsOf(log[i]) THEN log[i].quantity ELSE 0], 1)

\* C21: no lost update under concurrency: every interleaving of the read, write and
\* commit steps of two requests on one row ends in the state a serial execution of
\* the committed requests gives. Every serial execution keeps, for each record,
\* shipped equal to the committed shipments and finished equal to the units packed
\* (assembled) minus the committed shipments; in particular the committed shipments
\* never exceed the units that were there to ship.
NoLostUpdate ==
  /\ \A i \in 1..Len(inventory_records) :
       LET row == inventory_records[i]
           OfRow(t) == t.product_id = row.product_id /\ t.warehouse_id = row.warehouse_id
           packed == LoggedUnits(invTx, "pack", OfRow)
           shipped == LoggedUnits(invTx, "ship", OfRow)
       IN row.shipped = shipped /\ row.finished = packed - shipped /\ shipped <= packed
  /\ \A k \in ComboIds \X Warehouses :
       LET OfCombo(t) == t.combo_product_id = k[1] /\ t.warehouse_id = k[2]
           assembled == LoggedUnits(comboTx, "assemble", OfCombo)
           shipped == LoggedUnits(comboTx, "ship", OfCombo)
       IN /\ comboInv[k].shipped = shipped
          /\ comboInv[k].finished = assembled - shipped
          /\ shipped <= assembled

(* ---------- C22 ---------- *)
\* C22: at most one InventoryRecord exists per (product_id, warehouse_id) pair in
\* every reachable state, after any sequence and any interleaving of operations,
\* including two concurrent create_purchase_order calls that both make the first
\* movement into a never-stocked pair.
AtMostOneRecord ==
  \A p \in Products, w \in Warehouses : Cardinality(RowsOf(inventory_records, p, w)) <= 1

====
